---- MODULE Spec2Model ----
(***************************************************************************)
(* A model of the ledger core of SypherLang: src/src/transaction.py,       *)
(* src/src/blockchain.py, src/src/consensus.py, src/src/network.py and     *)
(* src/src/node.py.                                                        *)
(*                                                                         *)
(* Python strings are sequences of one-character strings, so that string   *)
(* concatenation is sequence concatenation.  hashlib.sha256(s).hexdigest() *)
(* is an uninterpreted collision-free function: the digest of s is the     *)
(* pair <<"sha256", s>>.  Whether a digest starts with the zeros that      *)
(* proof_of_work looks for is not computed: it is chosen when the digest   *)
(* is tested for the first time, either way, and remembered in zeros.      *)
(*                                                                         *)
(* Calls are one step each where they run one after the other (Spec,       *)
(* SpecNode, SpecMine).  Where calls overlap in time (SpecNet, SpecConv,   *)
(* SpecConc) two threads of a node make the calls, a call is one step for  *)
(* each read or write of the node's state, and its end, by return or by    *)
(* an exception, is a step of its own, call_return; for each request to a  *)
(* peer there is one step to send it, one in which the peer makes its      *)
(* answer and one in which the answer arrives.                             *)
(***************************************************************************)
EXTENDS Integers, Sequences, FiniteSets, TLC

VARIABLES address, chain, pending_transactions, nodes, now, ret, mining, peer, zeros

vars == <<address, chain, pending_transactions, nodes, now, ret, mining, peer, zeros>>

(* ---------------------------- bounds ---------------------------------- *)
MaxPending == 2      \* longest list of pending transactions explored
MaxTime == 1         \* last value of the clock time.time()
MaxCandLen == 3      \* longest candidate chain handed to resolve_conflicts
MaxChain == 3        \* longest local chain explored
MaxNonce == 1        \* greatest nonce proof_of_work is followed to
MaxMined == 1        \* blocks each of two nodes mines (SpecConv)

(* ------------------------ program constants --------------------------- *)
difficulty == 4      \* Blockchain.difficulty

(* ----------------------------- strings -------------------------------- *)
A == <<"a">>
AB == <<"a", "b">>
C == <<"c">>
BC == <<"b", "c">>
NetworkStr == <<"n", "e", "t", "w", "o", "r", "k">>

\* "0" * n
Zeros(n) == [i \in 1..n |-> "0"]

Digit(d) == CASE d = 0 -> "0" [] d = 1 -> "1" [] d = 2 -> "2" [] d = 3 -> "3"
              [] d = 4 -> "4" [] d = 5 -> "5" [] d = 6 -> "6" [] d = 7 -> "7"
              [] d = 8 -> "8" [] d = 9 -> "9"

RECURSIVE NatStr(_)
NatStr(n) == IF n < 10 THEN <<Digit(n)>> ELSE NatStr(n \div 10) \o <<Digit(n % 10)>>

\* str(amount) of an int, as the f-string of Transaction.compute_hash formats it
IntStr(n) == IF n < 0 THEN <<"-">> \o NatStr(0 - n) ELSE NatStr(n)

\* hashlib.sha256(text.encode()).hexdigest()
Sha256(text) == <<"sha256", text>>

(* --------------------------- transaction.py --------------------------- *)
\* Transaction.compute_hash leaving the recipient out of the hashed text
TxComputeHash_norecipient(sender, recipient, amount) == Sha256(sender \o IntStr(amount))

\* Transaction.compute_hash
TxComputeHash(sender, recipient, amount) == Sha256(sender \o recipient \o IntStr(amount))

\* Transaction.__init__ : no check of the amount
Transaction(sender, recipient, amount) ==
    [sender |-> sender, recipient |-> recipient, amount |-> amount,
     kind |-> "Transaction", hash |-> TxComputeHash(sender, recipient, amount)]

\* Transaction.validate (called by nothing in the repository)
TxValidate(tx) == tx.amount > 0

\* a transaction in its wire form, the JSON object {sender, recipient, amount}
TxDict(sender, recipient, amount) ==
    [sender |-> sender, recipient |-> recipient, amount |-> amount,
     kind |-> "dict", hash |-> <<>>]

\* the (sender, recipient, amount) triples offered as Transaction objects
TxArgs == { <<A, C, 10>>, <<A, C, 0>> }

\* the (sender, recipient, amount) triples offered in wire form
DictArgs == { <<A, C, 10>> }

\* the objects offered to add_transaction
TxInputs == { Transaction(a[1], a[2], a[3]) : a \in TxArgs }
            \cup { TxDict(a[1], a[2], a[3]) : a \in DictArgs }

\* the address a Node is constructed with
NodeAddrs == { <<"N", "1">>, <<"N", "2">> }

\* the addresses offered to register_node
PeerAddrs == { <<"p", "1">>, <<"p", "2">> }

(* ---------------------------- blockchain.py --------------------------- *)
\* json.dumps raises TypeError on a Transaction object
Serializable(transactions) ==
    \A i \in 1..Len(transactions) : transactions[i].kind = "dict"

\* json.dumps of one transaction dict, keys sorted
DumpsTx(tx) == << <<"amount", tx.amount>>, <<"recipient", tx.recipient>>,
                  <<"sender", tx.sender>> >>

\* json.dumps(self.__dict__, sort_keys=True); hashAttr is <<>> while the
\* attribute hash is not yet set (inside __init__) and <<h>> once it is h
Dumps(hashAttr, index, transactions, previous_hash, timestamp, nonce) ==
    (IF hashAttr = <<>> THEN <<>> ELSE << <<"hash", hashAttr[1]>> >>)
    \o << <<"index", index>>, <<"nonce", nonce>>,
          <<"previous_hash", previous_hash>>, <<"timestamp", timestamp>>,
          <<"transactions", [i \in 1..Len(transactions) |-> DumpsTx(transactions[i])]>> >>

\* Block.compute_hash on a block under construction (no attribute hash yet)
InitHash(index, transactions, previous_hash, timestamp, nonce) ==
    Sha256(Dumps(<<>>, index, transactions, previous_hash, timestamp, nonce))

\* Block.compute_hash on a constructed block: __dict__ holds hash as well
ComputeHash(b) ==
    Sha256(Dumps(<<b.hash>>, b.index, b.transactions, b.previous_hash, b.timestamp, b.nonce))

\* Block.__init__ dropping the transactions it is given
Block_empty(index, transactions, previous_hash, timestamp) ==
    [hash |-> InitHash(index, <<>>, previous_hash, timestamp, 0),
     transactions |-> <<>>, index |-> index, previous_hash |-> previous_hash,
     timestamp |-> timestamp, nonce |-> 0]

\* Block.__init__ with nonce = 0
Block(index, transactions, previous_hash, timestamp) ==
    [hash |-> InitHash(index, transactions, previous_hash, timestamp, 0),
     transactions |-> transactions, index |-> index, previous_hash |-> previous_hash,
     timestamp |-> timestamp, nonce |-> 0]

\* the value json.dumps wrote under key k
DumpField(text, k) == text[CHOOSE i \in 1..Len(text) : text[i][1] = k][2]

\* '0' * Blockchain.difficulty, the start proof_of_work looks for
Prefix == Zeros(difficulty)

\* block.hash.startswith(Prefix), for a digest that proof_of_work has tested:
\* zeros holds, for each such digest, what the test gave
StartsWithZeros(h) == h \in DOMAIN zeros /\ zeros[h]

\* proof_of_work storing the hash computed before the nonce is incremented
RECURSIVE proof_of_work_stale(_, _)
proof_of_work_stale(block, known) ==
    LET next == [block EXCEPT !.hash = ComputeHash(block), !.nonce = @ + 1]
        more(k) == IF block.nonce < MaxNonce THEN proof_of_work_stale(next, k) ELSE {}
    IN  IF block.hash \in DOMAIN known
        THEN IF known[block.hash] THEN { [zeros |-> known, block |-> block] }
             ELSE more(known)
        ELSE { [zeros |-> known @@ (block.hash :> TRUE), block |-> block] }
             \cup more(known @@ (block.hash :> FALSE))

\* Blockchain.proof_of_work(block), known being what the tests of digests
\* gave so far: every run of the loop that agrees with known and ends with a
\* nonce of at most MaxNonce, as the block returned and what is known after
\* it.  A digest tested for the first time may start with Prefix or not
RECURSIVE proof_of_work(_, _)
proof_of_work(block, known) ==
    LET incremented == [block EXCEPT !.nonce = @ + 1]
        next == [incremented EXCEPT !.hash = ComputeHash(incremented)]
        more(k) == IF block.nonce < MaxNonce THEN proof_of_work(next, k) ELSE {}
    IN  IF block.hash \in DOMAIN known
        THEN IF known[block.hash] THEN { [zeros |-> known, block |-> block] }
             ELSE more(known)
        ELSE { [zeros |-> known @@ (block.hash :> TRUE), block |-> block] }
             \cup more(known @@ (block.hash :> FALSE))

\* Blockchain.create_genesis_block, lines 28 and 29: the block it appends
genesis_block(timestamp) ==
    LET constructed == Block(0, <<>>, Zeros(1), timestamp)
    IN  [constructed EXCEPT !.hash = ComputeHash(constructed)]

\* is_chain_valid without the comparison of stored and recomputed hash
is_chain_valid_links(c) ==
    \A i \in 2..Len(c) : c[i].previous_hash = c[i - 1].hash

\* Blockchain.is_chain_valid
is_chain_valid(c) ==
    \A i \in 2..Len(c) :
        /\ c[i].hash = ComputeHash(c[i])
        /\ c[i].previous_hash = c[i - 1].hash

(* ----------------------------- consensus.py --------------------------- *)
\* Consensus.is_chain_valid: a fresh Blockchain whose chain is replaced by c
consensus_is_chain_valid(c) == is_chain_valid(c)

\* the loop of resolve_conflicts taking a candidate that is as long as the best
RECURSIVE ScanChains_ge(_, _, _, _)
ScanChains_ge(node_chains, i, longest_chain, max_length) ==
    IF i > Len(node_chains) THEN longest_chain
    ELSE IF Len(node_chains[i]) >= max_length /\ consensus_is_chain_valid(node_chains[i])
         THEN ScanChains_ge(node_chains, i + 1, node_chains[i], Len(node_chains[i]))
         ELSE ScanChains_ge(node_chains, i + 1, longest_chain, max_length)

\* the loop of Consensus.resolve_conflicts from candidate i on
RECURSIVE ScanChains(_, _, _, _)
ScanChains(node_chains, i, longest_chain, max_length) ==
    IF i > Len(node_chains) THEN longest_chain
    ELSE IF Len(node_chains[i]) > max_length /\ consensus_is_chain_valid(node_chains[i])
         THEN ScanChains(node_chains, i + 1, node_chains[i], Len(node_chains[i]))
         ELSE ScanChains(node_chains, i + 1, longest_chain, max_length)

\* Consensus.resolve_conflicts: the chain the node holds afterwards
resolve_conflicts(local, node_chains) == ScanChains(node_chains, 1, local, Len(local))

\* a block as response.json() yields it: a dict with the keys of a block
WireBlock(b) ==
    [kind |-> "dict", hash |-> b.hash, transactions |-> b.transactions,
     index |-> b.index, previous_hash |-> b.previous_hash,
     timestamp |-> b.timestamp, nonce |-> b.nonce]

\* a chain as response.json() yields it: a list of dicts
WireChain(c) == [i \in 1..Len(c) |-> WireBlock(c[i])]

\* b is a dict: it has keys, and neither the attribute hash nor compute_hash
IsDict(b) == "kind" \in DOMAIN b

\* Blockchain.is_chain_valid from block i on, with the exceptions it lets
\* through: "True", "False", or the name of the exception.  current_block.hash
\* raises AttributeError on a dict, compute_hash raises TypeError on a
\* transaction json.dumps cannot serialise
RECURSIVE is_chain_valid_run(_, _)
is_chain_valid_run(c, i) ==
    IF i > Len(c) THEN "True"
    ELSE IF IsDict(c[i]) THEN "AttributeError"
    ELSE IF ~ Serializable(c[i].transactions) THEN "TypeError"
    ELSE IF c[i].hash # ComputeHash(c[i]) THEN "False"
    ELSE IF IsDict(c[i - 1]) THEN "AttributeError"
    ELSE IF c[i].previous_hash # c[i - 1].hash THEN "False"
    ELSE is_chain_valid_run(c, i + 1)

\* the loop of Consensus.resolve_conflicts from candidate i on: the exception
\* that leaves it, "" for none
RECURSIVE ScanChainsRaised(_, _, _)
ScanChainsRaised(node_chains, i, max_length) ==
    IF i > Len(node_chains) THEN ""
    ELSE IF Len(node_chains[i]) > max_length
         THEN LET v == is_chain_valid_run(node_chains[i], 2)
              IN  IF v = "True"
                  THEN ScanChainsRaised(node_chains, i + 1, Len(node_chains[i]))
                  ELSE IF v = "False"
                       THEN ScanChainsRaised(node_chains, i + 1, max_length)
                       ELSE v
         ELSE ScanChainsRaised(node_chains, i + 1, max_length)

(* ------------------- candidate chains offered by peers ---------------- *)
\* n blocks made by the constructor Block(...), each linked to the one before
RECURSIVE BuiltChain(_, _)
BuiltChain(n, t) ==
    IF n = 1 THEN << Block(0, <<>>, Zeros(1), t) >>
    ELSE LET c == BuiltChain(n - 1, t)
         IN  Append(c, Block(n - 1, <<>>, c[n - 1].hash, t))

\* a chain whose last block does not point to the block before it
BrokenLink(c) == [c EXCEPT ![Len(c)].previous_hash = Zeros(1)]

\* the chains of peers that were not mined: built chains of every length up
\* to MaxCandLen, and the longest of them with a broken link
PeerChains ==
    [k \in 1..(MaxCandLen + 1) |->
        IF k <= MaxCandLen THEN BuiltChain(k, 1)
        ELSE BrokenLink(BuiltChain(MaxCandLen, 1))]

\* the block a peer that ran Blockchain() constructs in its first
\* mine_pending_transactions, before proof_of_work
PeerBlock == Block(1, <<>>, genesis_block(1).hash, 1)

\* the chain of that peer after the call, mined being the block its
\* proof_of_work returned
PeerMinedChain(mined) == << genesis_block(1), mined >>

\* the candidate that is the mined chain of a peer
MinedId == MaxCandLen + 2

\* the chains a caller may hand over: the local one (0) and those of peers
CandidateIds == 0..MinedId

\* the lists node_chains, by the ids of their chains: no candidate, one, or
\* two different ones, the two in the order of their ids
CandidateLists ==
    { <<>> } \cup { <<k>> : k \in CandidateIds }
    \cup { ids \in CandidateIds \X CandidateIds : ids[1] < ids[2] }

\* the local variable new_block of a thread that is in no call, and the
\* block of a peer that mined none
NoBlock ==
    [hash |-> <<>>, transactions |-> <<>>, index |-> 0, previous_hash |-> <<>>,
     timestamp |-> 0, nonce |-> 0]

\* the runs of the peer's proof_of_work behind the list ids: those of
\* PeerBlock when ids names the mined chain, none to make otherwise
PeerRuns(ids) ==
    IF \E i \in 1..Len(ids) : ids[i] = MinedId
    THEN proof_of_work(PeerBlock, zeros)
    ELSE { [zeros |-> zeros, block |-> NoBlock] }

\* the list node_chains named by ids
Candidates(local, ids, mined) ==
    [i \in 1..Len(ids) |->
        IF ids[i] = 0 THEN local
        ELSE IF ids[i] = MinedId THEN PeerMinedChain(mined)
        ELSE PeerChains[ids[i]]]

(* ------------------------------ the node ------------------------------ *)
\* the value of a Python call that ends without a return statement
None == <<"None">>

\* the Python values True and False
Bool(b) == <<"bool", b>>

\* what the last call that ended did: the operation, the exception it raised
\* ("" for none), the value Consensus.resolve_conflicts returned, the length
\* of the longest chain it was offered, and whether
\* mine_pending_transactions returned; then the value the call gave its
\* caller (None unless an action says otherwise), the peers requests.post was
\* called for, the peers requests.post or requests.get was called for, in
\* the order of the calls, each with what it answered, and the peers that
\* were registered when the loop of get_chains or of Network.broadcast began
\* (none for a call without such a loop of its own)
Result(op, raised, changed, offered, mined) ==
    [mined |-> mined, op |-> op, raised |-> raised, changed |-> changed,
     offered |-> offered, returned |-> None, posted |-> {}, replies |-> <<>>,
     registered |-> {}]

\* what a thread that is in no call is about to hand its caller: nothing
NoResult == Result("", "", FALSE, 0, FALSE)

\* the threads that may be inside a call on the node at the same time
Threads == { "t1", "t2" }

\* a thread in no call.  Inside mine_pending_transactions: pc is the
\* statement it is at, block its new_block (the arguments of Block(...) read
\* so far, before the constructor ran), alias tells whether
\* new_block.transactions is still the list self.pending_transactions, and at
\* is the place of new_block in self.chain once appended (0 before).  Inside
\* a loop over self.nodes (get_chains, broadcast): caller is the call, order
\* the order in which the iterator yields the peers, used the size the set
\* had when the iterator was made, replies the requests made so far with
\* their answers, chains the list chains, data whether json.dumps accepts
\* the data to post, inflight the answer to the request being waited for,
\* once the peer has made it and while it is on its way (<<>> for none).
\* Inside Consensus.resolve_conflicts: chains is node_chains, max_length the
\* length read at line 9.  A thread whose call has made its last read or
\* write of the node and has not yet ended is at pc "return": result is
\* what the call has done and hands its caller
Idle ==
    [block |-> NoBlock, max_length |-> 0, replies |-> <<>>,
     pc |-> "idle", alias |-> FALSE, at |-> 0,
     caller |-> "", order |-> <<>>, used |-> 0, chains |-> <<>>, data |-> TRUE,
     inflight |-> <<>>, result |-> NoResult]

\* a thread whose call is about to end with r
Returning(r) == [Idle EXCEPT !.pc = "return", !.result = r]

\* a second node, as Node(address) constructs it: its address, the chain and
\* the pending transactions of its Blockchain, the peers of its Network; then
\* its two threads: where the first is in a call of resolve_conflicts or
\* register_node, as for a thread, and miner, the second, which calls mine
\* or register_node
PeerNode ==
    [address |-> << "p", "1" >>, chain |-> << genesis_block(1) >>,
     pending_transactions |-> <<>>, nodes |-> {},
     max_length |-> 0,
     replies |-> <<>>, pc |-> "idle", used |-> 0, chains |-> <<>>,
     inflight |-> <<>>, result |-> NoResult, miner |-> Idle]

\* max(len(c) for c in node_chains), 0 for no candidate
RECURSIVE MaxLen(_)
MaxLen(node_chains) ==
    IF node_chains = <<>> THEN 0
    ELSE LET m == MaxLen(Tail(node_chains))
         IN  IF Len(Head(node_chains)) > m THEN Len(Head(node_chains)) ELSE m

\* Node.__init__: Blockchain(), Network(), Consensus(blockchain); no digest
\* has been tested
Init ==
    /\ address \in NodeAddrs
    /\ now = 1
    /\ chain = << genesis_block(1) >>
    /\ pending_transactions = <<>>
    /\ nodes = {}
    /\ ret = Result("init", "", FALSE, 0, FALSE)
    /\ mining = [th \in Threads |-> Idle]
    /\ peer = PeerNode
    /\ zeros = <<>>

\* Network.register_node
register_node(node_address) ==
    /\ nodes' = nodes \cup {node_address}
    /\ ret' = Result("register_node", "", FALSE, 0, FALSE)
    /\ UNCHANGED <<address, chain, pending_transactions, now, mining, peer, zeros>>

\* Blockchain.create_genesis_block, called on the node's blockchain after
\* construction: it appends one more genesis block, whatever the chain holds
create_genesis_block ==
    /\ Len(chain) < MaxChain
    /\ \E t \in now..MaxTime :
        /\ now' = t
        /\ chain' = Append(chain, genesis_block(t))
    /\ ret' = Result("create_genesis_block", "", FALSE, 0, FALSE)
    /\ UNCHANGED <<address, pending_transactions, nodes, mining, peer, zeros>>

\* Node.add_transaction -> Blockchain.add_transaction
add_transaction(transaction) ==
    /\ Len(pending_transactions) < MaxPending
    /\ pending_transactions' = Append(pending_transactions, transaction)
    /\ ret' = Result("add_transaction", "", FALSE, 0, FALSE)
    /\ UNCHANGED <<address, chain, nodes, now, mining, peer, zeros>>

\* mine_pending_transactions giving the block the index of the tip
new_block_sameindex(t) ==
    Block(Len(chain) - 1, pending_transactions, chain[Len(chain)].hash, t)

\* mine_pending_transactions linking the block to the tip's previous_hash
new_block_prev(t) ==
    Block(Len(chain), pending_transactions, chain[Len(chain)].previous_hash, t)

\* Blockchain.mine_pending_transactions, lines 36 to 40: the block
\* constructed at time t
new_block(t) ==
    Block(Len(chain), pending_transactions, chain[Len(chain)].hash, t)

\* mine_pending_transactions leaving the mempool empty
reward_missing(miner_address) == <<>>

\* Blockchain.mine_pending_transactions: the mempool it leaves
reward(miner_address) == << Transaction(NetworkStr, miner_address, 1) >>

\* Network.broadcast(action, data) as Node.broadcast_chain calls it: the
\* exception that leaves it.  For the first peer, requests.post(url,
\* json=data) serialises data with json.dumps before it sends anything; data
\* is the list of Block objects, json.dumps raises TypeError, and the handler
\* catches requests.RequestException only
broadcast(data) == IF nodes = {} THEN "" ELSE "TypeError"

\* Node.mine: mine_pending_transactions then broadcast_chain.  Block.__init__
\* raises TypeError before anything is changed when a pending transaction is
\* a Transaction object, which json.dumps cannot serialise
mine ==
    /\ Len(chain) < MaxChain
    /\ \E t \in now..MaxTime :
        /\ now' = t
        /\ IF Serializable(pending_transactions)
           THEN \E run \in proof_of_work(new_block(t), zeros) :
                    /\ chain' = Append(chain, run.block)
                    /\ zeros' = run.zeros
                    /\ pending_transactions' = reward(address)
                    /\ ret' = Result("mine", broadcast(chain'), FALSE, 0, TRUE)
           ELSE /\ ret' = Result("mine", "TypeError", FALSE, 0, FALSE)
                /\ UNCHANGED <<chain, pending_transactions, zeros>>
    /\ UNCHANGED <<address, nodes, mining, peer>>

\* Consensus.resolve_conflicts(node_chains) on the node's blockchain; tested
\* is what is known of digests once the peers have mined the chains they offer
consensus_resolve_conflicts(node_chains, tested) ==
    LET longest_chain == resolve_conflicts(chain, node_chains)
    IN  /\ ret' = [Result("resolve_conflicts", "", longest_chain # chain,
                           MaxLen(node_chains), FALSE)
                       EXCEPT !.returned = Bool(longest_chain # chain)]
        /\ chain' = longest_chain
        /\ zeros' = tested
        /\ UNCHANGED <<address, pending_transactions, nodes, now, mining, peer>>

\* every method that changes a node, called one at a time
Next ==
    \/ register_node(PeerNode.address)
    \/ \E tx \in TxInputs : add_transaction(tx)
    \/ mine
    \/ \E ids \in CandidateLists : \E run \in PeerRuns(ids) :
          consensus_resolve_conflicts(Candidates(chain, ids, run.block), run.zeros)
    \/ create_genesis_block

Spec == Init /\ [][Next]_vars

(* ------- a node used through add_transaction, mine, resolve_conflicts --- *)
\* the operations of a node after its construction: the genesis block is
\* made by the constructor alone
NextNode ==
    \/ register_node(PeerNode.address)
    \/ \E tx \in TxInputs : add_transaction(tx)
    \/ mine
    \/ \E ids \in CandidateLists : \E run \in PeerRuns(ids) :
          consensus_resolve_conflicts(Candidates(chain, ids, run.block), run.zeros)

SpecNode == Init /\ [][NextNode]_vars

(* --------------------- the node and its peers ------------------------- *)
\* the orders in which a loop over the set self.nodes may visit it
Orders(S) ==
    { o \in [1..Cardinality(S) -> S] :
        \A i \in 1..Cardinality(S) : \A j \in 1..Cardinality(S) : o[i] = o[j] => i = j }

\* what a peer does with a request: 0 stands for a requests.RequestException
\* raised by requests.get or requests.post (no connection, timeout), k >= 1
\* for an answer
RequestException == 0

\* the peer answers GET /get_chain with an error status and a JSON body
ErrorStatus == -1

\* the peer answers GET /get_chain with a body that is not JSON
NotJSON == -2

\* the answers to GET /get_chain with a chain: the JSON text of chain k of
\* PeerChains.  A chain of two blocks is longer than that of a fresh node
\* and as long as the chain of a node that mined, and a node without
\* add_transaction mines once
WireChainIds == { 2 }

\* what a peer may do with GET /get_chain
GetReplies == { RequestException, ErrorStatus, NotJSON } \cup WireChainIds

\* the answers to POST: delivered
Delivered == 1

\* the JSON body of an answer with an error status, {"error": ...}: a dict
\* of one key, whose len() is 1
ErrorBody == << [kind |-> "error"] >>

\* response.json() of the answer reply, which get_chains appends whatever
\* the status of the answer is
Answer(reply) ==
    IF reply >= 1 THEN WireChain(PeerChains[reply])
    ELSE IF reply = ErrorStatus THEN ErrorBody
    ELSE <<>>

\* what lines 23 and 24 raise for reply, "" for nothing.  response.json()
\* of a body that is not JSON raises requests.exceptions.JSONDecodeError, a
\* RequestException, with requests 2.27 or later, and a ValueError with the
\* versions before; the repository names no version
Raises(reply) ==
    IF reply = RequestException THEN { "RequestException" }
    ELSE IF reply = NotJSON THEN { "RequestException", "ValueError" }
    ELSE { "" }

\* the threads that make the calls that wait for a peer
NetThreads == { "t1" }

\* Network.get_chains, lines 22 to 27: the list chains after the request to
\* one peer, which answered served, or for which line 23 or 24 raised a
\* requests.RequestException
Fetched(chains, reply, served) ==
    IF reply \in { RequestException, NotJSON } THEN chains ELSE Append(chains, served)

\* the peers of the requests made
Requested(replies) == { replies[i][1] : i \in 1..Len(replies) }

\* the peers an iterator that yields them in this order was made over
Peers(order) == { order[i] : i \in 1..Len(order) }

\* Network.get_chains, lines 19 and 20 up to the iterator over self.nodes,
\* called by caller: directly, or by Node.resolve_conflicts (node.py line 23)
get_chains_begin(th, caller, order) ==
    /\ mining[th].pc = "idle"
    /\ mining' = [mining EXCEPT ![th] =
                     [Idle EXCEPT !.pc = "get_chains", !.caller = caller,
                                  !.order = order, !.used = Cardinality(nodes)]]
    /\ UNCHANGED <<address, chain, pending_transactions, nodes, now, ret, peer, zeros>>

\* Network.get_chains, one turn of the loop, the next() of the iterator: it
\* raises RuntimeError when the size of self.nodes is no longer the one it
\* started with; after the last peer the loop is left and the call is about
\* to return chains (line 28), or has returned it to Node.resolve_conflicts,
\* when that is the caller; otherwise requests.get sends the request to the
\* next peer and the thread waits
get_chains_next(th) ==
    /\ mining[th].pc = "get_chains"
    /\ LET m == mining[th]
           i == Len(m.replies) + 1
       IN  IF Cardinality(nodes) # m.used
           THEN mining' = [mining EXCEPT ![th] = Returning(
                              [Result(m.caller, "RuntimeError", FALSE, MaxLen(m.chains), FALSE)
                                  EXCEPT !.registered = Peers(m.order), !.replies = m.replies])]
           ELSE IF i > Len(m.order)
           THEN IF m.caller = "get_chains"
                THEN mining' = [mining EXCEPT ![th] = Returning(
                                   [Result("get_chains", "", FALSE, MaxLen(m.chains), FALSE)
                                       EXCEPT !.registered = Peers(m.order), !.replies = m.replies,
                                              !.returned = <<"list", m.chains>>])]
                ELSE mining' = [mining EXCEPT ![th].pc = "consensus"]
           ELSE mining' = [mining EXCEPT ![th].pc = "requested"]
    /\ UNCHANGED <<address, chain, pending_transactions, nodes, now, ret, peer, zeros>>

\* requests.get, line 23, while the thread waits: the peer makes its answer,
\* served, which is then on its way, or the request fails and will raise
\* requests.RequestException
get_chains_answer(th, reply, served) ==
    /\ mining[th].pc = "requested"
    /\ mining' = [mining EXCEPT
                     ![th].pc = "answered",
                     ![th].inflight =
                         <<reply, IF reply \in { RequestException, NotJSON } THEN <<>>
                                  ELSE served>>]
    /\ UNCHANGED <<address, chain, pending_transactions, nodes, now, ret, peer, zeros>>

\* Network.get_chains, lines 23 to 27: requests.get returns or raises, and
\* the answer that was on its way is appended to chains, or the
\* RequestException is caught, and the loop goes on; any other exception
\* leaves the call
get_chains_receive(th) ==
    /\ mining[th].pc = "answered"
    /\ LET m == mining[th]
           i == Len(m.replies) + 1
           replies == Append(m.replies, <<m.order[i], m.inflight[1]>>)
       IN  \E e \in Raises(m.inflight[1]) :
             IF e \in { "", "RequestException" }
             THEN mining' = [mining EXCEPT
                               ![th].pc = "get_chains",
                               ![th].replies = replies,
                               ![th].chains = Fetched(@, m.inflight[1], m.inflight[2]),
                               ![th].inflight = <<>>]
             ELSE mining' = [mining EXCEPT ![th] = Returning(
                                [Result(m.caller, e, FALSE, MaxLen(m.chains), FALSE)
                                    EXCEPT !.registered = Peers(m.order), !.replies = replies])]
    /\ UNCHANGED <<address, chain, pending_transactions, nodes, now, ret, peer, zeros>>

\* Consensus.resolve_conflicts as Node.resolve_conflicts calls it (node.py
\* line 24), lines 8 and 9: longest_chain is the list self.blockchain.chain
\* itself, max_length its length at this moment
node_resolve_conflicts_begin(th) ==
    /\ mining[th].pc = "consensus"
    /\ mining' = [mining EXCEPT ![th].pc = "scan", ![th].max_length = Len(chain)]
    /\ UNCHANGED <<address, chain, pending_transactions, nodes, now, ret, peer, zeros>>

\* Consensus.resolve_conflicts, lines 11 to 17: the loop over the lists of
\* dicts get_chains returned, which compares with the max_length read
\* before; an exception of is_chain_valid leaves the call; otherwise the
\* chain is replaced when a candidate was taken, Consensus.resolve_conflicts
\* returns True or False (lines 18 and 20) and Node.resolve_conflicts, which
\* drops the value, is about to return.  While no candidate is taken
\* longest_chain is the list the node holds, with the blocks other threads
\* appended to it meanwhile
node_resolve_conflicts_scan(th) ==
    /\ mining[th].pc = "scan"
    /\ LET m == mining[th]
           raised == ScanChainsRaised(m.chains, 1, m.max_length)
           longest_chain == ScanChains(m.chains, 1, chain, m.max_length)
       IN  IF raised # ""
           THEN /\ mining' = [mining EXCEPT ![th] = Returning(
                                 [Result("node_resolve_conflicts", raised, FALSE,
                                         MaxLen(m.chains), FALSE)
                                     EXCEPT !.registered = Peers(m.order), !.replies = m.replies])]
                /\ UNCHANGED chain
           ELSE /\ chain' = longest_chain
                /\ mining' = [mining EXCEPT ![th] = Returning(
                                 [Result("node_resolve_conflicts", "",
                                         longest_chain # chain, MaxLen(m.chains), FALSE)
                                     EXCEPT !.registered = Peers(m.order), !.replies = m.replies])]
    /\ UNCHANGED <<address, pending_transactions, nodes, now, ret, peer, zeros>>

\* Node.resolve_conflicts, line 24, after get_chains returned
node_resolve_conflicts(th) ==
    \/ node_resolve_conflicts_begin(th)
    \/ node_resolve_conflicts_scan(th)

\* Network.broadcast(action, data), up to the iterator over self.nodes.
\* serializable tells whether json.dumps accepts data: it does not accept the
\* list of Block objects that Node.broadcast_chain passes
network_broadcast_begin(th, order, serializable) ==
    /\ mining[th].pc = "idle"
    /\ mining' = [mining EXCEPT ![th] =
                     [Idle EXCEPT !.pc = "broadcast", !.caller = "broadcast",
                                  !.order = order, !.used = Cardinality(nodes),
                                  !.data = serializable]]
    /\ UNCHANGED <<address, chain, pending_transactions, nodes, now, ret, peer, zeros>>

\* Network.broadcast, one turn of the loop, the next() of the iterator:
\* RuntimeError when self.nodes changed its size; after the last peer the
\* loop is left and the call is about to return; otherwise requests.post for
\* the next peer, which raises TypeError before it sends anything when
\* json.dumps does not accept data, and else sends the request, and the
\* thread waits
network_broadcast_next(th) ==
    /\ mining[th].pc = "broadcast"
    /\ LET m == mining[th]
           i == Len(m.replies) + 1
       IN  IF Cardinality(nodes) # m.used
           THEN mining' = [mining EXCEPT ![th] = Returning(
                              [Result("broadcast", "RuntimeError", FALSE, 0, FALSE)
                                  EXCEPT !.registered = Peers(m.order), !.replies = m.replies,
                                         !.posted = Requested(m.replies)])]
           ELSE IF i > Len(m.order)
           THEN mining' = [mining EXCEPT ![th] = Returning(
                              [Result("broadcast", "", FALSE, 0, FALSE)
                                  EXCEPT !.registered = Peers(m.order), !.replies = m.replies,
                                         !.posted = Requested(m.replies)])]
           ELSE IF ~ m.data
           THEN mining' = [mining EXCEPT ![th] = Returning(
                              [Result("broadcast", "TypeError", FALSE, 0, FALSE)
                                  EXCEPT !.registered = Peers(m.order), !.replies = m.replies,
                                         !.posted = Requested(m.replies) \cup { m.order[i] }])]
           ELSE mining' = [mining EXCEPT ![th].pc = "posted"]
    /\ UNCHANGED <<address, chain, pending_transactions, nodes, now, ret, peer, zeros>>

\* Network.broadcast, lines 14 to 16: requests.post returns, or raises
\* requests.RequestException, which is caught; the loop goes on
network_broadcast_receive(th, reply) ==
    /\ mining[th].pc = "posted"
    /\ LET m == mining[th]
           i == Len(m.replies) + 1
       IN  mining' = [mining EXCEPT
                        ![th].pc = "broadcast",
                        ![th].replies = Append(@, <<m.order[i], reply>>)]
    /\ UNCHANGED <<address, chain, pending_transactions, nodes, now, ret, peer, zeros>>

(* ------------------- a node with no peer: add and mine ----------------- *)
\* the objects offered to add_transaction: two transactions in wire form and
\* a Transaction object
MineTxInputs == { TxDict(A, C, 10), TxDict(AB, C, 10), Transaction(A, C, 10) }

NextMine ==
    \/ \E tx \in MineTxInputs : add_transaction(tx)
    \/ mine
    \/ create_genesis_block

SpecMine == Init /\ [][NextMine]_vars

(* ------------- calls of one node that overlap in time ----------------- *)
\* the objects offered to add_transaction while threads are inside mine
ConcTxInputs == { TxDict(A, C, 10), Transaction(A, C, 10) }

\* the list node_chains handed to resolve_conflicts while threads are inside
\* mine: the longest built chain, then the mined chain of a peer
ConcCandidateLists == { << MaxCandLen, MinedId >> }

\* the call of thread th ends, by return or by the exception that leaves
\* it: its caller has what the call did
call_return(th) ==
    /\ mining[th].pc = "return"
    /\ ret' = mining[th].result
    /\ mining' = [mining EXCEPT ![th] = Idle]
    /\ UNCHANGED <<address, chain, pending_transactions, nodes, now, peer, zeros>>

\* Network.register_node replacing the set of peers, while calls overlap
conc_register_node_replace(th, node_address) ==
    /\ mining[th].pc = "idle"
    /\ nodes' = {node_address}
    /\ mining' = [mining EXCEPT ![th] =
                     Returning(Result("register_node", "", FALSE, 0, FALSE))]
    /\ UNCHANGED <<address, chain, pending_transactions, now, ret, peer, zeros>>

\* Network.register_node, line 8, while calls overlap: self.nodes.add, after
\* which the call is about to return
conc_register_node(th, node_address) ==
    /\ mining[th].pc = "idle"
    /\ nodes' = nodes \cup {node_address}
    /\ mining' = [mining EXCEPT ![th] =
                     Returning(Result("register_node", "", FALSE, 0, FALSE))]
    /\ UNCHANGED <<address, chain, pending_transactions, now, ret, peer, zeros>>

\* mine_pending_transactions, line 37: the thread reads len(self.chain)
mine_index(th) ==
    /\ mining[th].pc = "idle"
    /\ Len(chain) < MaxChain
    /\ mining' = [mining EXCEPT ![th] =
                     [Idle EXCEPT !.pc = "transactions", !.block.index = Len(chain)]]
    /\ UNCHANGED <<address, chain, pending_transactions, nodes, now, ret, peer, zeros>>

\* mine_pending_transactions, line 38: the thread reads
\* self.pending_transactions, the list itself and not a copy
mine_transactions(th) ==
    /\ mining[th].pc = "transactions"
    /\ mining' = [mining EXCEPT ![th].pc = "previous_hash",
                                ![th].block.transactions = pending_transactions,
                                ![th].alias = TRUE]
    /\ UNCHANGED <<address, chain, pending_transactions, nodes, now, ret, peer, zeros>>

\* mine_pending_transactions, lines 39 and 36: the thread reads
\* self.chain[-1].hash, and Block.__init__ reads the clock and hashes the
\* arguments read; TypeError leaves when the list of transactions holds a
\* Transaction object
mine_begin(th) ==
    /\ mining[th].pc = "previous_hash"
    /\ \E t \in now..MaxTime :
        /\ now' = t
        /\ IF Serializable(mining[th].block.transactions)
           THEN mining' = [mining EXCEPT
                      ![th].pc = "pow",
                      ![th].block = Block(mining[th].block.index,
                                          mining[th].block.transactions,
                                          chain[Len(chain)].hash, t)]
           ELSE mining' = [mining EXCEPT ![th] =
                              Returning(Result("mine", "TypeError", FALSE, 0, FALSE))]
    /\ UNCHANGED <<address, chain, pending_transactions, nodes, ret, peer, zeros>>

\* one turn of the loop of proof_of_work: the test of the stored hash, which
\* gives what zeros holds for it or, for a digest not yet tested, either
\* answer; then the next nonce and compute_hash over the transactions the
\* block holds now
mine_pow(th) ==
    /\ mining[th].pc = "pow"
    /\ LET b == mining[th].block
           b1 == [b EXCEPT !.nonce = @ + 1]
       IN  \E z \in BOOLEAN :
             /\ b.hash \in DOMAIN zeros => z = zeros[b.hash]
             /\ zeros' = IF b.hash \in DOMAIN zeros THEN zeros ELSE zeros @@ (b.hash :> z)
             /\ IF z
                THEN mining' = [mining EXCEPT ![th].pc = "mined"]
                ELSE /\ b.nonce < MaxNonce
                     /\ IF Serializable(b1.transactions)
                        THEN mining' = [mining EXCEPT ![th].block =
                                           [b1 EXCEPT !.hash = ComputeHash(b1)]]
                        ELSE mining' = [mining EXCEPT ![th] =
                                 Returning(Result("mine", "TypeError", FALSE, 0, FALSE))]
    /\ UNCHANGED <<address, chain, pending_transactions, nodes, now, ret, peer>>

\* mine_pending_transactions, line 43: self.chain.append(new_block), on the
\* list self.chain is at that moment
mine_append(th) ==
    /\ mining[th].pc = "mined"
    /\ chain' = Append(chain, mining[th].block)
    /\ mining' = [mining EXCEPT ![th].pc = "appended", ![th].at = Len(chain) + 1]
    /\ UNCHANGED <<address, pending_transactions, nodes, now, ret, peer, zeros>>

\* mine_pending_transactions, line 44: self.pending_transactions becomes a
\* new list, so that no block is the list of pending transactions any longer
mine_rebind(th) ==
    /\ mining[th].pc = "appended"
    /\ pending_transactions' = reward(address)
    /\ mining' = [x \in Threads |->
                      IF x = th THEN [Idle EXCEPT !.pc = "rebound"]
                      ELSE [mining[x] EXCEPT !.alias = FALSE]]
    /\ UNCHANGED <<address, chain, nodes, now, ret, peer, zeros>>

\* Node.mine, line 17: broadcast_chain calls Network.broadcast, which makes
\* the iterator over self.nodes (network.py line 11)
mine_broadcast(th) ==
    /\ mining[th].pc = "rebound"
    /\ mining' = [mining EXCEPT ![th] =
                     [Idle EXCEPT !.pc = "mine_broadcast", !.used = Cardinality(nodes)]]
    /\ UNCHANGED <<address, chain, pending_transactions, nodes, now, ret, peer, zeros>>

\* Network.broadcast inside Node.mine, the next() of the iterator:
\* RuntimeError when self.nodes changed its size; with no peer the loop is
\* left and Node.mine is about to return; for the first peer requests.post
\* raises TypeError before it sends anything, because data is the list of
\* Block objects, which json.dumps does not accept
mine_broadcast_next(th) ==
    /\ mining[th].pc = "mine_broadcast"
    /\ mining' = [mining EXCEPT ![th] = Returning(Result("mine",
                     IF Cardinality(nodes) # mining[th].used THEN "RuntimeError"
                     ELSE broadcast(chain),
                     FALSE, 0, TRUE))]
    /\ UNCHANGED <<address, chain, pending_transactions, nodes, now, ret, peer, zeros>>

\* Blockchain.add_transaction, line 33, while threads are inside mine: the
\* append reaches every block whose transactions are the list of pending
\* transactions, in the hands of a thread or already in the chain; then
\* Node.add_transaction is about to return
conc_add_transaction(th, transaction) ==
    /\ mining[th].pc = "idle"
    /\ Len(pending_transactions) < MaxPending
    /\ pending_transactions' = Append(pending_transactions, transaction)
    /\ mining' = [x \in Threads |->
                      IF x = th
                      THEN Returning(Result("add_transaction", "", FALSE, 0, FALSE))
                      ELSE IF mining[x].alias
                      THEN [mining[x] EXCEPT !.block.transactions = Append(@, transaction)]
                      ELSE mining[x]]
    /\ chain' = [i \in 1..Len(chain) |->
                     IF \E x \in Threads : mining[x].alias /\ mining[x].at = i
                     THEN [chain[i] EXCEPT !.transactions = Append(@, transaction)]
                     ELSE chain[i]]
    /\ UNCHANGED <<address, nodes, now, ret, peer, zeros>>

\* Consensus.resolve_conflicts(node_chains) while threads are inside mine,
\* lines 8 and 9: the length of the chain is read; tested is what is known
\* of digests once the peers have mined the chains they offer
conc_resolve_conflicts_begin(th, node_chains, tested) ==
    /\ mining[th].pc = "idle"
    /\ mining' = [mining EXCEPT ![th] =
                     [Idle EXCEPT !.pc = "scan", !.max_length = Len(chain),
                                  !.chains = node_chains]]
    /\ zeros' = tested
    /\ UNCHANGED <<address, chain, pending_transactions, nodes, now, ret, peer>>

\* Consensus.resolve_conflicts, lines 11 to 17: the loop, which compares
\* with the max_length read before, and the replacement of the chain; a
\* block that a thread appended to a list that is replaced is in self.chain
\* no longer.  The call is then about to return True or False (lines 18, 20)
conc_resolve_conflicts_scan(th) ==
    /\ mining[th].pc = "scan"
    /\ LET m == mining[th]
           longest_chain == ScanChains(m.chains, 1, chain, m.max_length)
       IN  /\ chain' = longest_chain
           /\ mining' = [x \in Threads |->
                            IF x = th
                            THEN Returning(
                                   [Result("resolve_conflicts", "", longest_chain # chain,
                                           MaxLen(m.chains), FALSE)
                                       EXCEPT !.returned = Bool(longest_chain # chain)])
                            ELSE IF longest_chain # chain
                            THEN [mining[x] EXCEPT !.at = 0]
                            ELSE mining[x]]
    /\ UNCHANGED <<address, pending_transactions, nodes, now, ret, peer, zeros>>

\* the threads that call mine while another thread waits for a peer
MineThreads == { "t2" }

\* two threads of a node: one inside get_chains, broadcast or
\* resolve_conflicts, one statement and one request at a time, the other
\* inside mine, one statement at a time; either may register a peer
NextNet ==
    \/ \E th \in Threads : \E p \in PeerAddrs : conc_register_node(th, p)
    \/ \E th \in MineThreads : mine_index(th)
    \/ \E th \in MineThreads : mine_transactions(th)
    \/ \E th \in MineThreads : mine_begin(th)
    \/ \E th \in MineThreads : mine_pow(th)
    \/ \E th \in MineThreads : mine_append(th)
    \/ \E th \in MineThreads : mine_rebind(th)
    \/ \E th \in MineThreads : mine_broadcast(th)
    \/ \E th \in MineThreads : mine_broadcast_next(th)
    \/ \E th \in NetThreads : \E order \in Orders(nodes) :
          \E caller \in { "get_chains", "node_resolve_conflicts" } :
              get_chains_begin(th, caller, order)
    \/ \E th \in NetThreads : get_chains_next(th)
    \/ \E th \in NetThreads : \E reply \in GetReplies :
          get_chains_answer(th, reply, Answer(reply))
    \/ \E th \in NetThreads : get_chains_receive(th)
    \/ \E th \in NetThreads : node_resolve_conflicts(th)
    \/ \E th \in NetThreads : \E order \in Orders(nodes) : \E serializable \in BOOLEAN :
          network_broadcast_begin(th, order, serializable)
    \/ \E th \in NetThreads : network_broadcast_next(th)
    \/ \E th \in NetThreads : \E reply \in {RequestException, Delivered} :
          network_broadcast_receive(th, reply)
    \/ \E th \in Threads : call_return(th)

\* the node N1 after its construction
InitNet == Init /\ address = << "N", "1" >>

SpecNet == InitNet /\ [][NextNet]_vars

\* two threads of a node inside add_transaction, mine and
\* Consensus.resolve_conflicts, one statement at a time
NextConc ==
    \/ \E th \in Threads : mine_index(th)
    \/ \E th \in Threads : mine_transactions(th)
    \/ \E th \in Threads : mine_begin(th)
    \/ \E th \in Threads : mine_pow(th)
    \/ \E th \in Threads : mine_append(th)
    \/ \E th \in Threads : mine_rebind(th)
    \/ \E th \in Threads : mine_broadcast(th)
    \/ \E th \in Threads : mine_broadcast_next(th)
    \/ \E th \in Threads : \E tx \in ConcTxInputs : conc_add_transaction(th, tx)
    \/ \E th \in Threads : \E ids \in ConcCandidateLists : \E run \in PeerRuns(ids) :
          conc_resolve_conflicts_begin(th, Candidates(chain, ids, run.block), run.zeros)
    \/ \E th \in Threads : conc_resolve_conflicts_scan(th)
    \/ \E th \in Threads : call_return(th)

SpecConc == Init /\ [][NextConc]_vars

(* ---------------- two nodes that fetch each other's chain ------------- *)
\* what a node answers to GET /get_chain: its chain in wire form, the JSON
\* array of block records.  The repository holds no server: this is the
\* wire contract of its specification
Served(c) == WireChain(c)

\* Consensus.resolve_conflicts, lines 11 to 17, on a node that holds the
\* chain local, fetched other_chains and read max_length at line 9: the
\* exception that leaves it and the chain the node holds afterwards
ResolveOutcome(local, other_chains, max_length) ==
    LET raised == ScanChainsRaised(other_chains, 1, max_length)
    IN  [chain |-> IF raised = "" THEN ScanChains(other_chains, 1, local, max_length)
                   ELSE local,
         raised |-> raised]

\* two nodes N1 and p1 after their construction and the calls by which
\* each registered the other, the second node last
InitConv ==
    /\ address = << "N", "1" >>
    /\ now = 1
    /\ chain = << genesis_block(1) >>
    /\ pending_transactions = <<>>
    /\ nodes = { PeerNode.address }
    /\ ret = Result("peer_register_node", "", FALSE, 0, FALSE)
    /\ mining = [th \in Threads |-> Idle]
    /\ peer = [PeerNode EXCEPT !.nodes = { << "N", "1" >> }]
    /\ zeros = <<>>

\* Node.mine on the first node is called: line 37
conv_mine_begin ==
    \E th \in MineThreads : Len(chain) <= MaxMined /\ mine_index(th)

\* a Node.mine in progress on the first node goes on, one statement at a
\* time, to its end
conv_mine_next ==
    \E th \in MineThreads :
        \/ mine_transactions(th)
        \/ mine_begin(th)
        \/ mine_pow(th)
        \/ mine_append(th)
        \/ mine_rebind(th)
        \/ mine_broadcast(th)
        \/ mine_broadcast_next(th)
        \/ call_return(th)

\* Node.mine on the first node
conv_mine ==
    \/ conv_mine_begin
    \/ conv_mine_next

\* Node.resolve_conflicts on the first node is called
conv_resolve_conflicts_begin ==
    \E order \in Orders(nodes) : get_chains_begin("t1", "node_resolve_conflicts", order)

\* a Node.resolve_conflicts in progress on the first node goes on, one
\* statement and one request at a time, to its end: the second node, asked
\* for its chain, makes its answer of the chain it holds at that moment, or
\* the request fails; the answer arrives later
conv_resolve_conflicts_next ==
    \/ get_chains_next("t1")
    \/ \E reply \in {RequestException, Delivered} :
          get_chains_answer("t1", reply, Served(peer.chain))
    \/ get_chains_receive("t1")
    \/ node_resolve_conflicts("t1")
    \/ call_return("t1")

\* Node.resolve_conflicts on the first node
conv_resolve_conflicts ==
    \/ conv_resolve_conflicts_begin
    \/ conv_resolve_conflicts_next

\* the first thread of the second node, its call about to end with r
PeerReturning(r) ==
    [peer EXCEPT !.pc = "return", !.result = r, !.used = 0, !.max_length = 0,
                 !.replies = <<>>, !.chains = <<>>, !.inflight = <<>>]

\* the call of the first thread of the second node ends
peer_call_return ==
    /\ peer.pc = "return"
    /\ ret' = peer.result
    /\ peer' = [peer EXCEPT !.pc = "idle", !.result = NoResult]
    /\ UNCHANGED <<address, chain, pending_transactions, nodes, now, mining, zeros>>

\* the call of the second thread of the second node ends
peer_miner_return ==
    /\ peer.miner.pc = "return"
    /\ ret' = peer.miner.result
    /\ peer' = [peer EXCEPT !.miner = Idle]
    /\ UNCHANGED <<address, chain, pending_transactions, nodes, now, mining, zeros>>

\* mine_pending_transactions on the second node, line 37
peer_mine_index ==
    /\ peer.miner.pc = "idle"
    /\ Len(peer.chain) <= MaxMined
    /\ peer' = [peer EXCEPT !.miner =
                   [Idle EXCEPT !.pc = "transactions", !.block.index = Len(peer.chain)]]
    /\ UNCHANGED <<address, chain, pending_transactions, nodes, now, ret, mining, zeros>>

\* mine_pending_transactions on the second node, line 38
peer_mine_transactions ==
    /\ peer.miner.pc = "transactions"
    /\ peer' = [peer EXCEPT !.miner.pc = "previous_hash",
                            !.miner.block.transactions = peer.pending_transactions]
    /\ UNCHANGED <<address, chain, pending_transactions, nodes, now, ret, mining, zeros>>

\* mine_pending_transactions on the second node, lines 39 and 36: the read
\* of self.chain[-1].hash and Block.__init__
peer_mine_begin ==
    /\ peer.miner.pc = "previous_hash"
    /\ \E t \in now..MaxTime :
        /\ now' = t
        /\ IF Serializable(peer.miner.block.transactions)
           THEN peer' = [peer EXCEPT
                      !.miner.pc = "pow",
                      !.miner.block = Block(peer.miner.block.index,
                                            peer.miner.block.transactions,
                                            peer.chain[Len(peer.chain)].hash, t)]
           ELSE peer' = [peer EXCEPT !.miner =
                            Returning(Result("peer_mine", "TypeError", FALSE, 0, FALSE))]
    /\ UNCHANGED <<address, chain, pending_transactions, nodes, ret, mining, zeros>>

\* one turn of the loop of proof_of_work on the second node
peer_mine_pow ==
    /\ peer.miner.pc = "pow"
    /\ LET b == peer.miner.block
           b1 == [b EXCEPT !.nonce = @ + 1]
       IN  \E z \in BOOLEAN :
             /\ b.hash \in DOMAIN zeros => z = zeros[b.hash]
             /\ zeros' = IF b.hash \in DOMAIN zeros THEN zeros ELSE zeros @@ (b.hash :> z)
             /\ IF z
                THEN peer' = [peer EXCEPT !.miner.pc = "mined"]
                ELSE /\ b.nonce < MaxNonce
                     /\ IF Serializable(b1.transactions)
                        THEN peer' = [peer EXCEPT !.miner.block =
                                         [b1 EXCEPT !.hash = ComputeHash(b1)]]
                        ELSE peer' = [peer EXCEPT !.miner =
                                 Returning(Result("peer_mine", "TypeError", FALSE, 0, FALSE))]
    /\ UNCHANGED <<address, chain, pending_transactions, nodes, now, ret, mining>>

\* mine_pending_transactions on the second node, line 43
peer_mine_append ==
    /\ peer.miner.pc = "mined"
    /\ peer' = [peer EXCEPT !.chain = Append(@, peer.miner.block),
                            !.miner.pc = "appended"]
    /\ UNCHANGED <<address, chain, pending_transactions, nodes, now, ret, mining, zeros>>

\* mine_pending_transactions on the second node, line 44
peer_mine_rebind ==
    /\ peer.miner.pc = "appended"
    /\ peer' = [peer EXCEPT
                   !.pending_transactions = << Transaction(NetworkStr, peer.address, 1) >>,
                   !.miner = [Idle EXCEPT !.pc = "rebound"]]
    /\ UNCHANGED <<address, chain, pending_transactions, nodes, now, ret, mining, zeros>>

\* Node.mine on the second node, line 17: Network.broadcast makes the
\* iterator over its peers
peer_mine_broadcast ==
    /\ peer.miner.pc = "rebound"
    /\ peer' = [peer EXCEPT !.miner =
                   [Idle EXCEPT !.pc = "mine_broadcast", !.used = Cardinality(peer.nodes)]]
    /\ UNCHANGED <<address, chain, pending_transactions, nodes, now, ret, mining, zeros>>

\* Network.broadcast inside Node.mine on the second node, the next() of the
\* iterator
peer_mine_broadcast_next ==
    /\ peer.miner.pc = "mine_broadcast"
    /\ peer' = [peer EXCEPT !.miner = Returning(Result("peer_mine",
                   IF Cardinality(peer.nodes) # peer.miner.used THEN "RuntimeError"
                   ELSE IF peer.nodes = {} THEN "" ELSE "TypeError",
                   FALSE, 0, TRUE))]
    /\ UNCHANGED <<address, chain, pending_transactions, nodes, now, ret, mining, zeros>>

\* a Node.mine in progress on the second node goes on to its end
peer_mine_next ==
    \/ peer_mine_transactions
    \/ peer_mine_begin
    \/ peer_mine_pow
    \/ peer_mine_append
    \/ peer_mine_rebind
    \/ peer_mine_broadcast
    \/ peer_mine_broadcast_next
    \/ peer_miner_return

\* Node.mine on the second node
peer_mine ==
    \/ peer_mine_index
    \/ peer_mine_next

\* Network.get_chains on the second node, up to the iterator over its peers
peer_get_chains_begin ==
    /\ peer.pc = "idle"
    /\ peer' = [peer EXCEPT !.pc = "get_chains", !.used = Cardinality(peer.nodes)]
    /\ UNCHANGED <<address, chain, pending_transactions, nodes, now, ret, mining, zeros>>

\* Network.get_chains on the second node, one turn of the loop: its only
\* peer is the first node, to which requests.get sends the request
peer_get_chains_next ==
    /\ peer.pc = "get_chains"
    /\ IF Cardinality(peer.nodes) # peer.used
       THEN peer' = PeerReturning(
                       [Result("peer_resolve_conflicts", "RuntimeError", FALSE,
                               MaxLen(peer.chains), FALSE)
                           EXCEPT !.registered = IF peer.used = 0 THEN {} ELSE {address},
                                  !.replies = peer.replies])
       ELSE IF Len(peer.replies) >= Cardinality(peer.nodes)
       THEN peer' = [peer EXCEPT !.pc = "consensus"]
       ELSE peer' = [peer EXCEPT !.pc = "requested"]
    /\ UNCHANGED <<address, chain, pending_transactions, nodes, now, ret, mining, zeros>>

\* requests.get of the second node, while it waits: the first node makes its
\* answer of the chain it holds, or the request fails
peer_get_chains_answer(reply) ==
    /\ peer.pc = "requested"
    /\ peer' = [peer EXCEPT
                   !.pc = "answered",
                   !.inflight =
                       <<reply, IF reply = RequestException THEN <<>> ELSE Served(chain)>>]
    /\ UNCHANGED <<address, chain, pending_transactions, nodes, now, ret, mining, zeros>>

\* Network.get_chains on the second node, lines 23 to 27: the answer that
\* was on its way is appended to chains, or the exception is caught
peer_get_chains_receive ==
    /\ peer.pc = "answered"
    /\ peer' = [peer EXCEPT
                   !.pc = "get_chains",
                   !.replies = Append(@, <<address, peer.inflight[1]>>),
                   !.chains = Fetched(@, peer.inflight[1], peer.inflight[2]),
                   !.inflight = <<>>]
    /\ UNCHANGED <<address, chain, pending_transactions, nodes, now, ret, mining, zeros>>

\* Consensus.resolve_conflicts on the second node, lines 8 and 9: the
\* length of its chain is read
peer_consensus_resolve_conflicts_begin ==
    /\ peer.pc = "consensus"
    /\ peer' = [peer EXCEPT !.pc = "scan", !.max_length = Len(peer.chain)]
    /\ UNCHANGED <<address, chain, pending_transactions, nodes, now, ret, mining, zeros>>

\* Consensus.resolve_conflicts on the second node, lines 11 to 17: the loop
\* over the chains it fetched and the replacement of its chain, after which
\* Node.resolve_conflicts is about to return
peer_consensus_resolve_conflicts_scan ==
    /\ peer.pc = "scan"
    /\ LET out == ResolveOutcome(peer.chain, peer.chains, peer.max_length)
       IN  peer' = [PeerReturning(
                       [Result("peer_resolve_conflicts", out.raised,
                               out.chain # peer.chain, MaxLen(peer.chains), FALSE)
                           EXCEPT !.registered = IF peer.used = 0 THEN {} ELSE {address},
                                  !.replies = peer.replies])
                       EXCEPT !.chain = out.chain]
    /\ UNCHANGED <<address, chain, pending_transactions, nodes, now, ret, mining, zeros>>

\* Node.resolve_conflicts on the second node, line 24
peer_consensus_resolve_conflicts ==
    \/ peer_consensus_resolve_conflicts_begin
    \/ peer_consensus_resolve_conflicts_scan

\* a Node.resolve_conflicts in progress on the second node goes on to its
\* end
peer_resolve_conflicts_next ==
    \/ peer_get_chains_next
    \/ \E reply \in {RequestException, Delivered} : peer_get_chains_answer(reply)
    \/ peer_get_chains_receive
    \/ peer_consensus_resolve_conflicts
    \/ peer_call_return

\* Node.resolve_conflicts on the second node
peer_resolve_conflicts ==
    \/ peer_get_chains_begin
    \/ peer_resolve_conflicts_next

\* two nodes that have registered each other, two threads each: one calls
\* resolve_conflicts, the other mine
NextConv ==
    \/ conv_mine
    \/ peer_mine
    \/ conv_resolve_conflicts
    \/ peer_resolve_conflicts

\* a call that has begun goes on to its end: the interpreter gives every
\* thread that can run its turn, and a request that was sent ends with an
\* answer or with an exception.  Nothing makes a node call resolve_conflicts
\* or mine again
SpecConv ==
    /\ InitConv
    /\ [][NextConv]_vars
    /\ WF_vars(conv_resolve_conflicts_next)
    /\ WF_vars(peer_resolve_conflicts_next)
    /\ WF_vars(conv_mine_next)
    /\ WF_vars(peer_mine_next)

(* -------------------- Transaction objects on their own ---------------- *)
\* the senders and recipients, and the amounts, two transactions are made of
HashNames == { A, AB, C, BC }

HashAmounts == { 1, 10, -5 }

\* the arguments of Transaction(sender, recipient, amount), as triples
HashArgs == { <<s, r, a>> : s \in HashNames, r \in HashNames, a \in HashAmounts }

\* two argument triples, held as unhashed records until the constructor runs
InitTx ==
    /\ address = << "N", "1" >>
    /\ now = 1
    /\ chain = << genesis_block(1) >>
    /\ pending_transactions \in
          { << TxDict(a[1], a[2], a[3]), TxDict(b[1], b[2], b[3]) >> :
              a \in HashArgs, b \in HashArgs }
    /\ nodes = {}
    /\ ret = Result("init", "", FALSE, 0, FALSE)
    /\ mining = [th \in Threads |-> Idle]
    /\ peer = PeerNode
    /\ zeros = <<>>

\* Transaction.__init__ on each of the two triples: compute_hash sets hash
construct_transactions ==
    /\ ret.op = "init"
    /\ pending_transactions' =
          [i \in 1..Len(pending_transactions) |->
              Transaction(pending_transactions[i].sender,
                          pending_transactions[i].recipient,
                          pending_transactions[i].amount)]
    /\ ret' = Result("Transaction", "", FALSE, 0, FALSE)
    /\ UNCHANGED <<address, chain, nodes, now, mining, peer, zeros>>

NextTx == construct_transactions

SpecTx == InitTx /\ [][NextTx]_vars

(* ============================== claims ================================ *)

\* the last block of the chain, the one a completed mine appended
Tip == chain[Len(chain)]

\* the last call was a Node.mine that returned
MineCompleted == ret.op = "mine" /\ ret.raised = ""

\* the last call was a Node.mine whose proof_of_work returned a block
BlockMined == ret.op = "mine" /\ ret.mined

\* C1 (as claimed): after any sequence of add_transaction and
\* mine_pending_transactions on a fresh Blockchain, is_chain_valid() is true.
C1_ChainAlwaysValid == is_chain_valid(chain)

\* chain with the amount of transaction j of block i changed to a
TamperAmount(c, i, j, a) == [c EXCEPT ![i].transactions[j].amount = a]

TamperedAmounts == { 1000, 10, 0, -5 }

\* C2: changing the amount of any transaction contained in any block of the
\* node's chain makes is_chain_valid() return false.
C2_TamperedAmountInvalid ==
    \A i \in 1..Len(chain) : \A j \in 1..Len(chain[i].transactions) :
        \A a \in TamperedAmounts \ { chain[i].transactions[j].amount } :
            ~ is_chain_valid(TamperAmount(chain, i, j, a))

\* C2 witness: a mined block of the chain holds a transaction.
C2_Witness == Len(chain) >= 2 /\ Tip.transactions # <<>>

\* C3: after Consensus.resolve_conflicts the chain is the unchanged local
\* chain, or a candidate strictly longer than the local chain that passes
\* is_chain_valid; no shorter, equally long or invalid candidate is adopted.
C3_AdoptOnlyLongerValid ==
    [][ \/ chain' = chain
        \/ \A ids \in CandidateLists : \A run \in PeerRuns(ids) :
              LET cs == Candidates(chain, ids, run.block)
              IN  consensus_resolve_conflicts(cs, run.zeros) =>
                    \E k \in 1..Len(cs) :
                        /\ chain' = cs[k]
                        /\ Len(cs[k]) > Len(chain)
                        /\ consensus_is_chain_valid(cs[k]) ]_vars

\* C3 witness: resolve_conflicts ran on a list holding a longer candidate and
\* kept the local chain.
C3_Witness ==
    ret.op = "resolve_conflicts" /\ ret.offered > Len(chain) /\ ~ ret.changed

\* validity as section 4.3 of the specification defines it: every block's
\* stored hash is the digest of its index, transactions, previous_hash,
\* timestamp and nonce, and every block points to the block before it
DocumentedValid(c) ==
    \A i \in 1..Len(c) :
        /\ c[i].hash = InitHash(c[i].index, c[i].transactions, c[i].previous_hash,
                                c[i].timestamp, c[i].nonce)
        /\ i > 1 => c[i].previous_hash = c[i - 1].hash

\* C4 (as claimed): when a candidate is valid and strictly longer than the
\* local chain, resolve_conflicts leaves the local chain as long as the
\* longest valid candidate.
C4_AdoptsLongestValid ==
    [][ \A ids \in CandidateLists : \A run \in PeerRuns(ids) :
          LET cs == Candidates(chain, ids, run.block)
          IN  ( /\ consensus_resolve_conflicts(cs, run.zeros)
                /\ \E k \in 1..Len(cs) : DocumentedValid(cs[k]) /\ Len(cs[k]) > Len(chain) )
          => \E k \in 1..Len(cs) :
                /\ DocumentedValid(cs[k])
                /\ Len(chain') = Len(cs[k])
                /\ \A m \in 1..Len(cs) : DocumentedValid(cs[m]) => Len(cs[m]) <= Len(cs[k]) ]_vars

\* C5: a completed mine leaves exactly one pending transaction, the reward
\* of amount 1 from "network" to the node's own address, and a chain one
\* block longer.
C5_MineLeavesReward ==
    [][ (mine /\ ret'.raised = "") =>
          /\ Len(pending_transactions') = 1
          /\ pending_transactions'[1].kind = "Transaction"
          /\ pending_transactions'[1].sender = NetworkStr
          /\ pending_transactions'[1].recipient = address
          /\ pending_transactions'[1].amount = 1
          /\ Len(chain') = Len(chain) + 1 ]_vars

\* C5 witness: a mine completed on a mempool that held a transaction.
C5_Witness == MineCompleted /\ Tip.transactions # <<>> /\ Len(pending_transactions) = 1

\* C6 (as claimed): no transaction with amount <= 0 is ever pending.
C6_NoNonPositivePending ==
    \A i \in 1..Len(pending_transactions) : pending_transactions[i].amount > 0

\* C7 (as claimed): no two pending transactions share an identity hash.
C7_NoDuplicatePending ==
    \A i \in 1..Len(pending_transactions) : \A j \in 1..Len(pending_transactions) :
        ( /\ i < j
          /\ pending_transactions[i].kind = "Transaction"
          /\ pending_transactions[j].kind = "Transaction" )
        => pending_transactions[i].hash # pending_transactions[j].hash

\* C8 (as claimed): the first block has index 0, no transactions and
\* previous_hash "0" repeated 64 times.
C8_GenesisSentinel ==
    /\ chain[1].index = 0
    /\ chain[1].transactions = <<>>
    /\ chain[1].previous_hash = Zeros(64)

\* C9: the block proof_of_work returned has a stored hash that was tested
\* and starts with difficulty zero digits, and that hash is the digest of a
\* text written with the block's final nonce and its other fields.
C9_ProofOfWorkTarget ==
    BlockMined =>
        /\ StartsWithZeros(Tip.hash)
        /\ DumpField(Tip.hash[2], "nonce") = Tip.nonce
        /\ DumpField(Tip.hash[2], "index") = Tip.index
        /\ DumpField(Tip.hash[2], "previous_hash") = Tip.previous_hash
        /\ DumpField(Tip.hash[2], "timestamp") = Tip.timestamp
        /\ Len(DumpField(Tip.hash[2], "transactions")) = Len(Tip.transactions)

\* C9 witness: proof_of_work returned a block after incrementing the nonce.
C9_Witness == BlockMined /\ Tip.nonce >= 1

\* C10: every block after the first has previous_hash equal to the stored
\* hash of the block before it.
C10_Linked ==
    \A i \in 2..Len(chain) : chain[i].previous_hash = chain[i - 1].hash

\* C10 witness: the node has mined a block and then run resolve_conflicts on
\* a list holding a longer candidate.
C10_Witness ==
    Len(chain) >= 2 /\ ret.op = "resolve_conflicts" /\ ret.offered > Len(chain)

\* C15: a mine that appends a block appends it at the end of the chain, with
\* exactly the transactions that were pending when mine was called, in their
\* order, index equal to the length of the chain before the call and
\* previous_hash equal to the stored hash of the former tip.
C15_MinedBlockContents ==
    [][ (mine /\ ret'.mined) =>
          /\ Len(chain') = Len(chain) + 1
          /\ \A i \in 1..Len(chain) : chain'[i] = chain[i]
          /\ chain'[Len(chain')].transactions = pending_transactions
          /\ chain'[Len(chain')].index = Len(chain)
          /\ chain'[Len(chain')].previous_hash = chain[Len(chain)].hash ]_vars

\* C15 witness: mine appended a block holding two different transactions
\* that were added before it.
C15_Witness ==
    /\ BlockMined
    /\ Len(Tip.transactions) = 2
    /\ Tip.transactions[1] # Tip.transactions[2]

\* a node with no peer and a chain of one block, whose mempool holds the one
\* transaction (sender "a", recipient "c", amount 10)
FreshWithOneTransaction ==
    /\ Len(chain) = 1
    /\ nodes = {}
    /\ Len(pending_transactions) = 1
    /\ pending_transactions[1].sender = A
    /\ pending_transactions[1].recipient = C
    /\ pending_transactions[1].amount = 10

\* C16 (as claimed): on a fresh node, after adding the transaction and
\* calling mine, the chain has length 2 and the transactions of the tip are
\* exactly the reward transaction crediting the node.
C16_TipHoldsReward ==
    [][ (FreshWithOneTransaction /\ mine) =>
          /\ Len(chain') = 2
          /\ chain'[Len(chain')].transactions = reward(address) ]_vars

\* C17 (as claimed): a mine that completed returns the block it appended,
\* and the index of that block is greater than 0.
C17_MineReturnsBlock ==
    MineCompleted => ret.returned = <<"Block", Tip>> /\ Tip.index > 0

\* C12 (as claimed): broadcast calls requests.post for every peer that was
\* registered when it began and no exception leaves it, and no exception
\* leaves a Node.mine that reached its broadcast.
C12_BroadcastNeverFails ==
    /\ ret.op = "broadcast" => (ret.raised = "" /\ ret.posted = ret.registered)
    /\ BlockMined => ret.raised = ""

\* the request r was answered with a chain
Answered(r) == r[2] >= 1

\* C13 (as claimed): no exception leaves get_chains; it has called
\* requests.get for every peer that was registered when it began, and the
\* list it returns holds
\* exactly the chains of the peers that answered with their chain, in the
\* order of the requests, one entry for each such peer and none for a peer
\* that failed or answered with an error.
C13_GetChainsPartial ==
    ret.op = "get_chains" =>
        LET answered == SelectSeq(ret.replies, Answered)
        IN  /\ ret.raised = ""
            /\ Requested(ret.replies) = ret.registered
            /\ ret.returned =
                  <<"list", [j \in 1..Len(answered) |-> Answer(answered[j][2])]>>

\* C14 (as claimed): whatever chains the peers answered, no exception
\* raised by the check of a fetched chain leaves Node.resolve_conflicts.
C14_ResolveNeverFails ==
    ret.op = "node_resolve_conflicts" => ret.raised \notin { "AttributeError", "TypeError" }

\* C18 (as claimed): Node.resolve_conflicts returns True when it replaced
\* the chain and False when it left the chain as it was.
C18_ReportsChanged ==
    (ret.op = "node_resolve_conflicts" /\ ret.raised = "")
        => ret.returned = Bool(ret.changed)

\* number of the fields sender, recipient, amount in which t1 and t2 differ
FieldsChanged(t1, t2) ==
    (IF t1.sender # t2.sender THEN 1 ELSE 0)
    + (IF t1.recipient # t2.recipient THEN 1 ELSE 0)
    + (IF t1.amount # t2.amount THEN 1 ELSE 0)

\* C19: two Transaction objects made of the same sender, recipient and
\* amount have the same hash, and two that differ in exactly one of the three
\* fields have different hashes.
C19_HashOfFields ==
    ret.op = "Transaction" =>
        LET t1 == pending_transactions[1]
            t2 == pending_transactions[2]
        IN  /\ FieldsChanged(t1, t2) = 0 => t1.hash = t2.hash
            /\ FieldsChanged(t1, t2) = 1 => t1.hash # t2.hash

\* C19 witness: two Transaction objects were made that differ in the
\* recipient alone, one recipient being the start of the other.
C19_Witness ==
    /\ ret.op = "Transaction"
    /\ pending_transactions[1].sender = pending_transactions[2].sender
    /\ pending_transactions[1].amount = pending_transactions[2].amount
    /\ pending_transactions[1].recipient = A
    /\ pending_transactions[2].recipient = AB

\* the list q from its last entry to its first
ReverseSeq(q) == [i \in 1..Len(q) |-> q[Len(q) + 1 - i]]

\* C20: for the chain the node holds and every two candidates,
\* Consensus.resolve_conflicts leaves the same chain, and so returns the same
\* value, whichever of the two it scans first.
C20_ScanOrderIrrelevant ==
    \A ids \in CandidateLists :
        (Len(ids) = 2 /\ ids[1] < ids[2]) =>
            \A run \in PeerRuns(ids) :
                LET there == resolve_conflicts(chain, Candidates(chain, ids, run.block))
                    back == resolve_conflicts(chain,
                                Candidates(chain, ReverseSeq(ids), run.block))
                IN  there = back /\ (there # chain) = (back # chain)

\* C20 witness: resolve_conflicts ran on a list of candidates longer than the
\* chain, and two different chains of that length, with every block linked
\* to the one before, can be offered in either order.
C20_Witness ==
    /\ ret.op = "resolve_conflicts"
    /\ ret.offered > Len(chain)
    /\ \E ids \in CandidateLists : \E run \in PeerRuns(ids) :
          LET cs == Candidates(chain, ids, run.block)
          IN  /\ Len(cs) = 2
              /\ cs[1] # cs[2]
              /\ Len(cs[1]) = ret.offered
              /\ Len(cs[2]) = ret.offered
              /\ is_chain_valid_links(cs[1])
              /\ is_chain_valid_links(cs[2])

\* C11 (as claimed): a step that appends a block to the chain appends a
\* block whose previous_hash is the stored hash of the tip at that moment
\* and whose index is the index of that tip plus 1, also when other calls on
\* the node ran between the read of the tip and the append.
C11_AppendChecksLinkage ==
    [][ ( /\ Len(chain') = Len(chain) + 1
          /\ \A i \in 1..Len(chain) : chain'[i] = chain[i] )
        => /\ chain'[Len(chain')].previous_hash = chain[Len(chain)].hash
           /\ chain'[Len(chain')].index = chain[Len(chain)].index + 1 ]_vars

\* C22: a step changes the set of registered peers only when it is a
\* register_node of an address not yet registered, which it adds; a
\* register_node of a registered address, and every broadcast, get_chains,
\* resolve_conflicts and mine, leave the set as it was.
C22_RegistryFrame ==
    [][ /\ nodes' # nodes =>
              \E th \in Threads : \E p \in PeerAddrs \ nodes :
                  /\ conc_register_node(th, p)
                  /\ nodes' = nodes \cup {p}
        /\ \A th \in Threads : \A p \in nodes :
              conc_register_node(th, p) => nodes' = nodes ]_vars

\* C22 witness: with two peers registered, a broadcast or a get_chains met
\* a peer that failed.
C22_Witness ==
    /\ Cardinality(nodes) = 2
    /\ ret.op \in { "broadcast", "get_chains" }
    /\ \E i \in 1..Len(ret.replies) : ret.replies[i][2] = RequestException

\* a chain with the contents of its first block changed, the stored hash kept
TamperGenesis(c) == [c EXCEPT ![1].timestamp = @ + 1]

\* C23 (as claimed): is_chain_valid returns true exactly when every block,
\* the first included, has a stored hash equal to its recomputed hash and
\* every later block points to the stored hash of the block before it; so
\* for the node's chain and for that chain with its first block tampered.
C23_ValidIffAllBlocksMatch ==
    \A c \in { chain, TamperGenesis(chain) } :
        is_chain_valid(c) <=>
            \A i \in 1..Len(c) :
                /\ c[i].hash = ComputeHash(c[i])
                /\ i > 1 => c[i].previous_hash = c[i - 1].hash

\* C24 (as claimed): the stored hash of every block of the chain is the
\* digest of its index, transactions, previous_hash, timestamp and nonce
\* alone, and compute_hash on the block gives the stored hash again.
C24_HashOfFiveFields ==
    \A i \in 1..Len(chain) :
        /\ chain[i].hash = InitHash(chain[i].index, chain[i].transactions,
                                    chain[i].previous_hash, chain[i].timestamp,
                                    chain[i].nonce)
        /\ ComputeHash(chain[i]) = chain[i].hash

\* C25 (as claimed): no step changes a block that is in the chain, whatever
\* the interleaving of add_transaction, the statements of mine and
\* resolve_conflicts; a step that is not the replacement of the chain by
\* resolve_conflicts keeps every block the chain holds.
C25_AppendedBlocksFrozen ==
    [][ (\A th \in Threads : ~ conc_resolve_conflicts_scan(th))
        => /\ Len(chain') >= Len(chain)
           /\ \A i \in 1..Len(chain) : chain'[i] = chain[i] ]_vars

\* the transactions of the blocks of c, first block first
RECURSIVE AllTransactions(_)
AllTransactions(c) ==
    IF c = <<>> THEN <<>> ELSE Head(c).transactions \o AllTransactions(Tail(c))

\* every place that holds a transaction: the blocks of the chain, then the
\* list of pending transactions
Held == AllTransactions(chain) \o pending_transactions

\* C26: the places that hold transactions change only by gaining one place
\* for the transaction add_transaction accepted, or one for the reward a
\* mine created: every other transaction keeps its one place, in the
\* mempool or in one block, through add_transaction, mine and
\* resolve_conflicts.
C26_HeldOnce ==
    [][ IF ret'.op = "add_transaction"
        THEN \E tx \in TxInputs : Held' = Append(Held, tx)
        ELSE IF ret'.op = "mine" /\ ret'.mined
             THEN Held' = Held \o reward(address)
             ELSE Held' = Held ]_vars

\* C26 witness: two transactions are in a mined block, the reward and a
\* transaction added later are pending.
C26_Witness ==
    /\ ret.op = "add_transaction"
    /\ Len(chain) = 2
    /\ Len(Tip.transactions) = 2
    /\ Len(pending_transactions) = 2

\* C27 (as claimed): no step shortens the chain; add_transaction leaves its
\* length, mine adds exactly 1 to it, and resolve_conflicts leaves the chain
\* or makes it strictly longer.
C27_LengthMonotone ==
    [][ /\ Len(chain') >= Len(chain)
        /\ ret'.op = "add_transaction" => Len(chain') = Len(chain)
        /\ ret'.op = "mine" => Len(chain') = Len(chain) + 1
        /\ ret'.op = "resolve_conflicts" =>
              (chain' = chain \/ Len(chain') > Len(chain)) ]_vars

\* C28: every block of the chain after the first has a stored hash that
\* proof_of_work tested and found to start with difficulty zero digits.
C28_ChainMeetsTarget ==
    \A i \in 2..Len(chain) : StartsWithZeros(chain[i].hash)

\* C28 witness: the chain holds a mined block, and resolve_conflicts ran on
\* a longer candidate whose blocks were never mined.
C28_Witness ==
    /\ Len(chain) = 2
    /\ ret.op = "resolve_conflicts"
    /\ ret.offered = MaxCandLen
    /\ ~ StartsWithZeros(PeerChains[MaxCandLen][2].hash)

\* C29: the block at position i of the chain, counted from 0, has index i.
C29_IndexIsPosition ==
    \A i \in 1..Len(chain) : chain[i].index = i - 1

\* C29 witness: the chain holds a mined block of index 1, and
\* resolve_conflicts was offered the local chain itself.
C29_Witness ==
    /\ Len(chain) = 2
    /\ Tip.index = 1
    /\ ret.op = "resolve_conflicts"
    /\ ret.offered = Len(chain)

\* C30 (as claimed): two Transaction objects whose sender, recipient and
\* amount differ in any way have different hashes.
C30_DistinctTriplesDistinctHashes ==
    ret.op = "Transaction" =>
        ( FieldsChanged(pending_transactions[1], pending_transactions[2]) >= 1
          => pending_transactions[1].hash # pending_transactions[2].hash )

\* the two nodes have registered each other
Connected == peer.address \in nodes /\ address \in peer.nodes

\* a step of resolve_conflicts, on either node, in which the node asked, if
\* any, answers
ResolveStep ==
    \/ conv_resolve_conflicts_begin
    \/ get_chains_next("t1")
    \/ get_chains_answer("t1", Delivered, Served(peer.chain))
    \/ get_chains_receive("t1")
    \/ node_resolve_conflicts("t1")
    \/ call_return("t1") /\ ret'.op = "node_resolve_conflicts"
    \/ peer_get_chains_begin
    \/ peer_get_chains_next
    \/ peer_get_chains_answer(Delivered)
    \/ peer_get_chains_receive
    \/ peer_consensus_resolve_conflicts
    \/ peer_call_return /\ ret'.op = "peer_resolve_conflicts"

\* C21 (as claimed): when the two nodes have registered each other, each
\* of them calls resolve_conflicts again and again, and from some moment on
\* every step is a step of a resolve_conflicts of one of them, every
\* request being answered, then eventually both hold chains of one length
\* for ever.
C21_Converges ==
    ( /\ <>[]Connected
      /\ <>[][ResolveStep]_vars
      /\ []<><<conv_resolve_conflicts_begin>>_vars
      /\ []<><<peer_get_chains_begin>>_vars )
        => <>[](Len(chain) = Len(peer.chain))

====
